---- MODULE Spec2Model ----
(***************************************************************************)
(* A model of pathfinder.py: the grid graph built by Game.generate_nodes   *)
(* and Game.get_neighbors, and Dijkstra's algorithm as written in          *)
(* Graph.find_shortest_path and Graph.trace_back.                          *)
(*                                                                         *)
(* One call of find_shortest_path is followed step by step: the            *)
(* initialisation (lines 153-170), each iteration of the main loop (lines  *)
(* 173-201) and the path reconstruction with the return (lines 204-206).   *)
(* A Python dict is an ordered mapping; nodes is modelled as the sequence  *)
(* of its <<key, value>> items in insertion order, dist and prev as        *)
(* functions whose DOMAIN is the set of keys.                              *)
(***************************************************************************)
EXTENDS Integers, Sequences, FiniteSets, TLC

(* Bounds of the model: the grid is at most MaxW by MaxH cells with at    *)
(* most MaxCells cells, and at most MaxWalls cells are walls.              *)
MaxW == 3
MaxH == 3
MaxCells == 9
MaxWalls == 2

(* At most MaxAdds calls of add_wall are followed on one graph. *)
MaxAdds == 2

(* At most MaxGraphs Graph instances are made. *)
MaxGraphs == 2

(* The grid of the event loop has at most MaxGameCells cells. *)
MaxGameCells == 4

VARIABLES size, nodes, walls, source, target,
          pc, dist, prev, unvisited, visited, curr, path, iters, error,
          lists, graphs

vars == <<size, nodes, walls, source, target,
          pc, dist, prev, unvisited, visited, curr, path, iters, error,
          lists, graphs>>

(* The list objects and the Graph instances of a program that makes        *)
(* several graphs: lists[a] is the content of the list object a, and a     *)
(* Graph instance holds in walls the object it was given, not a copy.      *)
(* Where one graph is followed, walls is the content of its list.          *)
instVars == <<lists, graphs>>

graphVars == <<size, nodes, walls>>

(* float('inf'), line 158: encoded as -1 and handled by Lt and Add. *)
infinity == -1

(* a < b on floats where either side may be float('inf') *)
Lt(a, b) == a # infinity /\ (b = infinity \/ a < b)

(* a + b on floats where either side may be float('inf') *)
Add(a, b) == IF a = infinity \/ b = infinity THEN infinity ELSE a + b

(* Python's None. Node.__eq__(None) is False and None hashes, so None is   *)
(* a value different from every Node that may be used as a key.            *)
None == [pos |-> <<>>, _name |-> "None"]

(* Node.name: str(x) + "," + str(y) *)
name(pos) == ToString(pos[1]) \o "," \o ToString(pos[2])

(* Node.__init__ *)
Node(pos) == [pos |-> pos, _name |-> name(pos)]

(* Node.__eq__: nodes are equal when their names are *)
NodeEq(a, b) == a._name = b._name

(* x in list, with Node.__eq__ as the comparison *)
InList(x, s) == \E i \in 1..Len(s) : NodeEq(s[i], x)

(* get_neighbors with the test for the right side one off: x < w *)
get_neighborsPastRight(node, w, h) ==
    LET x == node.pos[1]
        y == node.pos[2]
    IN  (IF x > 0 THEN <<Node(<<x - 1, y>>)>> ELSE <<>>)
        \o (IF x < w THEN <<Node(<<x + 1, y>>)>> ELSE <<>>)
        \o (IF y > 0 THEN <<Node(<<x, y - 1>>)>> ELSE <<>>)
        \o (IF y < h - 1 THEN <<Node(<<x, y + 1>>)>> ELSE <<>>)

(* get_neighbors without the neighbor above *)
get_neighborsNoUp(node, w, h) ==
    LET x == node.pos[1]
        y == node.pos[2]
    IN  (IF x > 0 THEN <<Node(<<x - 1, y>>)>> ELSE <<>>)
        \o (IF x < w - 1 THEN <<Node(<<x + 1, y>>)>> ELSE <<>>)
        \o (IF y < h - 1 THEN <<Node(<<x, y + 1>>)>> ELSE <<>>)

(* Game.get_neighbors: left, right, up, down, those inside the grid *)
get_neighbors(node, w, h) ==
    LET x == node.pos[1]
        y == node.pos[2]
    IN  (IF x > 0 THEN <<Node(<<x - 1, y>>)>> ELSE <<>>)
        \o (IF x < w - 1 THEN <<Node(<<x + 1, y>>)>> ELSE <<>>)
        \o (IF y > 0 THEN <<Node(<<x, y - 1>>)>> ELSE <<>>)
        \o (IF y < h - 1 THEN <<Node(<<x, y + 1>>)>> ELSE <<>>)

(* Game.generate_nodes: for x in range(w): for y in range(h), in this      *)
(* order, nodes[Node((x, y))] = get_neighbors(node)                        *)
generate_nodes(w, h) ==
    [i \in 1..(w * h) |->
        LET node == Node(<<(i - 1) \div h, (i - 1) % h>>)
        IN  <<node, get_neighbors(node, w, h)>>]

(* self.nodes.keys(), in the dict's order *)
Keys(ns) == [i \in 1..Len(ns) |-> ns[i][1]]

KeySet(ns) == {ns[i][1] : i \in 1..Len(ns)}

(* key in self.nodes *)
HasKey(ns, k) == \E i \in 1..Len(ns) : NodeEq(ns[i][1], k)

(* self.nodes[k], for a key k of the dict *)
Lookup(ns, k) == ns[CHOOSE i \in 1..Len(ns) : NodeEq(ns[i][1], k)][2]

(* The lists of walls drawn for a search: every list of at most MaxWalls   *)
(* distinct cells of the grid, in the order of the keys. Graph.add_wall    *)
(* can build any list; the search reads walls only through "in".           *)
WallLists(ns) ==
    {SelectSeq(Keys(ns), LAMBDA k : k \in S) :
        S \in {T \in SUBSET KeySet(ns) : Cardinality(T) <= MaxWalls}}

(* The arguments drawn for source and target: a cell of the grid, a cell   *)
(* outside the grid, or None (Game.run starts with source = target = None) *)
Endpoints(ns, w, h) == KeySet(ns) \cup {Node(<<w, h>>), None}

(***************************************************************************)
(* Graph.find_shortest_path                                                *)
(***************************************************************************)

(* lines 164-167: unvisited.append(node) for every key *)
InitUnvisited(ns) == Keys(ns)

(* InitDist without dist[source] = 0 *)
InitDistNoSource(ns, src) == [k \in KeySet(ns) |-> infinity]

(* lines 164-169: dist[node] = infinity for every key, then dist[source] = 0 *)
InitDist(ns, src) == (src :> 0) @@ [k \in KeySet(ns) |-> infinity]

(* lines 164-167: prev[node] = None for every key *)
InitPrev(ns) == [k \in KeySet(ns) |-> None]

(* lines 174-178: the smallest dist among unvisited, starting at infinity *)
RECURSIVE MinLoop(_, _, _, _)
MinLoop(unv, i, d, m) ==
    IF i > Len(unv) THEN m
    ELSE MinLoop(unv, i + 1, d, IF Lt(d[unv[i]], m) THEN d[unv[i]] ELSE m)

(* MinDist that takes the distance of the first unvisited node *)
MinDistFirst(unv, d) == d[unv[1]]

MinDist(unv, d) == MinLoop(unv, 1, d, infinity)

(* lines 180-185: the index of the first node of unvisited whose dist is   *)
(* min, 0 when the for loop ends without a break                           *)
RECURSIVE FirstLoop(_, _, _, _)
FirstLoop(unv, i, d, m) ==
    IF i > Len(unv) THEN 0
    ELSE IF d[unv[i]] = m THEN i
    ELSE FirstLoop(unv, i + 1, d, m)

(* FirstWithMin without the break: the last node whose dist is min *)
LastWithMin(unv, d, m) ==
    IF \E i \in 1..Len(unv) : d[unv[i]] = m
    THEN CHOOSE i \in 1..Len(unv) :
            /\ d[unv[i]] = m
            /\ \A j \in (i + 1)..Len(unv) : d[unv[j]] # m
    ELSE 0

FirstWithMin(unv, d, m) == FirstLoop(unv, 1, d, m)

(* RemoveAt that removes nothing: the selected node stays in unvisited *)
RemoveNothing(s, i) == s

(* list.remove of the element found at index i *)
RemoveAt(s, i) == [j \in 1..(Len(s) - 1) |-> IF j < i THEN s[j] ELSE s[j + 1]]

(* Alt that tests curr, not the neighbor, for being a wall *)
AltCurrWall(neighbor, ws, d, c) ==
    IF InList(c, ws) THEN Add(infinity, d[c]) ELSE Add(1, d[c])

(* Alt with an edge weight of two *)
AltWeightTwo(neighbor, ws, d, c) ==
    IF InList(neighbor, ws) THEN Add(infinity, d[c]) ELSE Add(2, d[c])

(* Alt with the test for a wall left out: every edge weighs one *)
AltNoWalls(neighbor, ws, d, c) == Add(1, d[c])

(* lines 194-197: the distance of neighbor through curr *)
Alt(neighbor, ws, d, c) ==
    IF InList(neighbor, ws) THEN Add(infinity, d[c]) ELSE Add(1, d[c])

(* lines 192-201: the for loop over self.nodes[curr]; the result is the    *)
(* pair of dist and prev after the loop                                    *)
RECURSIVE RelaxLoop(_, _, _, _, _, _)
RelaxLoop(nbrs, i, ws, d, p, c) ==
    IF i > Len(nbrs) THEN [dist |-> d, prev |-> p]
    ELSE LET neighbor == nbrs[i]
             alt == Alt(neighbor, ws, d, c)
         IN  IF Lt(alt, d[neighbor])
             THEN RelaxLoop(nbrs, i + 1, ws,
                            [d EXCEPT ![neighbor] = alt],
                            [p EXCEPT ![neighbor] = c], c)
             ELSE RelaxLoop(nbrs, i + 1, ws, d, p, c)

Relax(ns, ws, d, p, c) == RelaxLoop(Lookup(ns, c), 1, ws, d, p, c)

(* Graph.trace_back, lines 221-225: path = [target], then prev is followed *)
(* while it is not None                                                    *)
RECURSIVE TraceLoop(_, _, _)
TraceLoop(p, t, pth) ==
    IF p[t] # None THEN TraceLoop(p, p[t], Append(pth, p[t])) ELSE pth

(* list.reverse, line 226 *)
Reverse(s) == [i \in 1..Len(s) |-> s[Len(s) + 1 - i]]

(* trace_back that starts from the empty path instead of [target] *)
trace_backNoTarget(p, t) == Reverse(TraceLoop(p, t, <<>>))

(* Graph.trace_back for a target that is a key of prev *)
trace_back(p, t) == Reverse(TraceLoop(p, t, <<t>>))

(* The state when find_shortest_path is called: a graph built by           *)
(* generate_nodes for a w by h grid, a list of walls, and the arguments.   *)
Init ==
    /\ \E w \in 1..MaxW, h \in 1..MaxH :
          /\ w * h <= MaxCells
          /\ size = <<w, h>>
          /\ nodes = generate_nodes(w, h)
          /\ walls \in WallLists(nodes)
          /\ source \in Endpoints(nodes, w, h)
          /\ target \in Endpoints(nodes, w, h)
    /\ pc = "call"
    /\ dist = <<>>
    /\ prev = <<>>
    /\ unvisited = <<>>
    /\ visited = <<>>
    /\ curr = None
    /\ path = <<>>
    /\ iters = 0
    /\ error = "none"
    /\ lists = <<>>
    /\ graphs = <<>>

(* lines 153-170 *)
Initialize ==
    /\ pc = "call"
    /\ unvisited' = InitUnvisited(nodes)
    /\ dist' = InitDist(nodes, source)
    /\ prev' = InitPrev(nodes)
    /\ visited' = <<>>
    /\ path' = <<>>
    /\ curr' = None
    /\ pc' = "loop"
    /\ UNCHANGED <<graphVars, source, target, iters, error, instVars>>

(* Iterate with visited an alias of self.walls: visited.append(curr)      *)
(* appends to walls too                                                    *)
IterateAliased ==
    /\ pc = "loop"
    /\ InList(target, unvisited)
    /\ iters <= Len(nodes)
    /\ iters' = iters + 1
    /\ \E min \in {MinDist(unvisited, dist)} :
       \E i \in {FirstWithMin(unvisited, dist, min)} :
       \E c \in {IF i # 0 THEN unvisited[i] ELSE curr} :
          /\ curr' = c
          /\ walls' = IF i # 0 THEN Append(walls, c) ELSE walls
          /\ visited' = IF i # 0 THEN Append(visited, c) ELSE visited
          /\ unvisited' = IF i # 0 THEN RemoveAt(unvisited, i) ELSE unvisited
          /\ IF HasKey(nodes, c)
             THEN \E r \in {Relax(nodes, walls, dist, prev, c)} :
                     /\ dist' = r.dist
                     /\ prev' = r.prev
                     /\ UNCHANGED <<pc, error>>
             ELSE (* self.nodes[curr] raises KeyError, line 192 *)
                  /\ pc' = "raised"
                  /\ error' = "KeyError"
                  /\ UNCHANGED <<dist, prev>>
    /\ UNCHANGED <<size, nodes, source, target, path, instVars>>

(* One iteration of "while target in unvisited", lines 173-201. iters      *)
(* counts the iterations; the guard on iters only keeps a loop that does   *)
(* not end from growing the counter for ever. min, the index i of the      *)
(* selected node, curr (c) and the result r of the loop over the neighbors *)
(* are each computed once.                                                 *)
Iterate ==
    /\ pc = "loop"
    /\ InList(target, unvisited)
    /\ iters <= Len(nodes)
    /\ iters' = iters + 1
    /\ \E min \in {MinDist(unvisited, dist)} :
       \E i \in {FirstWithMin(unvisited, dist, min)} :
       \E c \in {IF i # 0 THEN unvisited[i] ELSE curr} :
          /\ curr' = c
          /\ visited' = IF i # 0 THEN Append(visited, c) ELSE visited
          /\ unvisited' = IF i # 0 THEN RemoveAt(unvisited, i) ELSE unvisited
          /\ IF HasKey(nodes, c)
             THEN \E r \in {Relax(nodes, walls, dist, prev, c)} :
                     /\ dist' = r.dist
                     /\ prev' = r.prev
                     /\ UNCHANGED <<pc, error>>
             ELSE (* self.nodes[curr] raises KeyError, line 192 *)
                  /\ pc' = "raised"
                  /\ error' = "KeyError"
                  /\ UNCHANGED <<dist, prev>>
    /\ UNCHANGED <<graphVars, source, target, path, instVars>>

(* The loop has ended: lines 204-206, with trace_back's prev[target] of    *)
(* line 222 raising KeyError when target is no key of prev                 *)
Return ==
    /\ pc = "loop"
    /\ ~InList(target, unvisited)
    /\ IF target \in DOMAIN prev
       THEN /\ path' = trace_back(prev, target)
            /\ pc' = "returned"
            /\ UNCHANGED error
       ELSE /\ pc' = "raised"
            /\ error' = "KeyError"
            /\ UNCHANGED path
    /\ UNCHANGED <<graphVars, source, target, dist, prev, unvisited, visited,
                   curr, iters, instVars>>

Next == Initialize \/ Iterate \/ Return

Spec == Init /\ [][Next]_vars

(* The call runs to its end: no step of it waits for anything. *)
FairSpec == Spec /\ WF_vars(Next)

(***************************************************************************)
(* What the properties are stated with.                                    *)
(***************************************************************************)

Cells == KeySet(nodes)

WallSet == {walls[i] : i \in 1..Len(walls)}

Terminal == {"returned", "raised"}

Abs(n) == IF n < 0 THEN 0 - n ELSE n

Manhattan(a, b) == Abs(a.pos[1] - b.pos[1]) + Abs(a.pos[2] - b.pos[2])

(* a and b are one step apart on the grid *)
GridAdjacent(a, b) == Manhattan(a, b) = 1

(* Breadth-first search on the grid: the number of steps of a shortest     *)
(* route from the cells of front (d steps from the start) to t that, after *)
(* its first cell, passes through no wall; infinity when there is none.    *)
RECURSIVE BfsLayers(_, _, _, _)
BfsLayers(front, seen, d, t) ==
    IF t \in front THEN d
    ELSE LET nxt == {c \in Cells \ (seen \cup WallSet) :
                        \E f \in front : GridAdjacent(f, c)}
         IN  IF nxt = {} THEN infinity
             ELSE BfsLayers(nxt, seen \cup nxt, d + 1, t)

BfsDist(s, t) == BfsLayers({s}, {s}, 0, t)

(* source and target are cells of the grid *)
ArgsInGrid == source \in Cells /\ target \in Cells

(* x is a Cell that is no key of the adjacency mapping *)
OutOfGrid(x) == x # None /\ x \notin Cells

(* C1: when source and target are non-wall cells of the grid and target    *)
(* can be reached from source through non-wall cells, the call returns a   *)
(* path that starts at source, ends at target, and has as many steps as    *)
(* the breadth-first shortest distance that avoids the walls.              *)
C1_ShortestPath ==
    (/\ ArgsInGrid
     /\ source \notin WallSet
     /\ target \notin WallSet
     /\ BfsDist(source, target) # infinity)
    => /\ pc # "raised"
       /\ pc = "returned" =>
            /\ Len(path) >= 1
            /\ path[1] = source
            /\ path[Len(path)] = target
            /\ Len(path) - 1 = BfsDist(source, target)

(* C1 witness: a returned search whose walls force a detour *)
C1_Witness ==
    /\ pc = "returned"
    /\ ArgsInGrid
    /\ source \notin WallSet
    /\ target \notin WallSet
    /\ BfsDist(source, target) # infinity
    /\ Len(path) - 1 = BfsDist(source, target)
    /\ BfsDist(source, target) > Manhattan(source, target)

(* C2: when source and target are cells of the grid, target is not source  *)
(* and target cannot be reached from source through non-wall cells, the    *)
(* call returns normally and the returned path is the empty sequence.      *)
C2_UnreachableEmptyPath ==
    (/\ ArgsInGrid
     /\ target # source
     /\ BfsDist(source, target) = infinity
     /\ pc \in Terminal)
    => pc = "returned" /\ path = <<>>

(* C3: with source and target in the grid the main loop runs at most as    *)
(* many iterations as the grid has cells, and the call eventually ends     *)
(* (it returns or raises), also when target cannot be reached.             *)
C3_Terminates ==
    /\ [](ArgsInGrid => iters <= Len(nodes))
    /\ (ArgsInGrid ~> pc \in Terminal)

(* C3 witness: a search for an unreachable target that has ended after as  *)
(* many iterations as the grid has cells                                   *)
C3_Witness ==
    /\ pc \in Terminal
    /\ ArgsInGrid
    /\ BfsDist(source, target) = infinity
    /\ Len(nodes) > 1
    /\ iters = Len(nodes)

(* C4: in a search between two cells of the grid no cell whose distance is *)
(* infinity is ever selected as curr or appended to visited: the loop      *)
(* stops once no unvisited cell has a finite distance.                     *)
C4_ExhaustedStops ==
    ArgsInGrid => \A i \in 1..Len(visited) : dist[visited[i]] # infinity

(* C5: with source and target in the grid (either may be a wall), in a     *)
(* returned path that is not empty every two consecutive cells are         *)
(* neighbors in the grid and no cell is a wall.                            *)
C5_PathValid ==
    (pc = "returned" /\ ArgsInGrid /\ path # <<>>)
    => /\ \A i \in 1..(Len(path) - 1) :
             InList(path[i + 1], Lookup(nodes, path[i]))
       /\ \A i \in 1..Len(path) : path[i] \notin WallSet

(* a route from source to target exists: one that enters no wall *)
RouteExists == BfsDist(source, target) # infinity

(* C6: with source and target in the grid, source is the first element of  *)
(* the returned visited, and target is its last element whenever a route   *)
(* from source to target exists.                                           *)
C6_VisitedEnds ==
    (pc = "returned" /\ ArgsInGrid)
    => /\ Len(visited) >= 1
       /\ visited[1] = source
       /\ RouteExists => visited[Len(visited)] = target

(* C6 witness: a returned search around a wall that visited other cells    *)
(* between source and target, where source is not the first key            *)
C6_Witness ==
    /\ pc = "returned"
    /\ ArgsInGrid
    /\ RouteExists
    /\ walls # <<>>
    /\ source # Keys(nodes)[1]
    /\ Len(visited) > 2
    /\ visited[1] = source
    /\ visited[Len(visited)] = target

(* C7: on a grid without walls the returned path has as many steps as the  *)
(* Manhattan distance between source and target; from (0,0) to (2,2) on    *)
(* the 3 by 3 grid it has 5 cells.                                         *)
C7_Manhattan ==
    (pc = "returned" /\ ArgsInGrid /\ walls = <<>>)
    => Len(path) - 1 = Manhattan(source, target)

(* C7 witness: the 3 by 3 grid without walls, from (0,0) to (2,2) *)
C7_Witness ==
    /\ pc = "returned"
    /\ size = <<3, 3>>
    /\ walls = <<>>
    /\ source = Node(<<0, 0>>)
    /\ target = Node(<<2, 2>>)
    /\ Len(path) = 5

(* C8: no step of find_shortest_path changes the graph: nodes and walls    *)
(* are after every step of the call, to its return or its raise, what they *)
(* were before it.                                                         *)
C8_GraphUnchanged == [][nodes' = nodes /\ walls' = walls]_vars

(* C8 witness: a call on a graph with walls that has ended after several   *)
(* iterations                                                              *)
C8_Witness ==
    /\ pc \in Terminal
    /\ walls # <<>>
    /\ iters > 2
    /\ nodes = generate_nodes(size[1], size[2])

(* C9: a call with source unset (None) or target unset (None) fails with   *)
(* an error and returns no result.                                         *)
C9_UnsetEndpointRaises ==
    (source = None \/ target = None) => pc # "returned"

(* C10: a call with a source or a target that is a Cell outside the grid   *)
(* fails with an error and returns no result.                              *)
C10_UnknownCellRaises ==
    (OutOfGrid(source) \/ OutOfGrid(target)) => pc # "returned"

(***************************************************************************)
(* The grid built by generate_nodes.                                       *)
(***************************************************************************)

(* a corner cell lies at an end of both axes, an edge cell at an end of    *)
(* one axis only, an interior cell at no end                               *)
AtEndX(c, w) == c.pos[1] = 0 \/ c.pos[1] = w - 1

AtEndY(c, h) == c.pos[2] = 0 \/ c.pos[2] = h - 1

IsCorner(c, w, h) == AtEndX(c, w) /\ AtEndY(c, h)

IsEdge(c, w, h) == AtEndX(c, w) # AtEndY(c, h)

IsInterior(c, w, h) == ~AtEndX(c, w) /\ ~AtEndY(c, h)

(* the number of neighbors listed for the i-th key *)
Degree(i) == Len(nodes[i][2])

(* C13 as claimed: for every w >= 1 and h >= 1 the grid has w*h cells and  *)
(* every cell has between 1 and 4 neighbors, 2 for a corner cell, 3 for an *)
(* edge cell, 4 for an interior cell, also when w = 1 or h = 1.            *)
C13_CountsAnyGrid ==
    /\ Len(nodes) = size[1] * size[2]
    /\ Cardinality(Cells) = size[1] * size[2]
    /\ \A i \in 1..Len(nodes) :
          /\ Degree(i) \in 1..4
          /\ IsCorner(nodes[i][1], size[1], size[2]) => Degree(i) = 2
          /\ IsEdge(nodes[i][1], size[1], size[2]) => Degree(i) = 3
          /\ IsInterior(nodes[i][1], size[1], size[2]) => Degree(i) = 4

(* C13 amended: the grid has w*h cells; when w >= 2 and h >= 2 a corner    *)
(* cell has 2 neighbors, an edge cell 3 and an interior cell 4; when w = 1 *)
(* or h = 1 the counts are lower: 0 on the 1 by 1 grid, else 1 at the two  *)
(* ends of the line of cells and 2 between them.                           *)
C13_NeighborCounts ==
    /\ Len(nodes) = size[1] * size[2]
    /\ Cardinality(Cells) = size[1] * size[2]
    /\ \A i \in 1..Len(nodes) :
          LET c == nodes[i][1]
              w == size[1]
              h == size[2]
          IN  /\ (w >= 2 /\ h >= 2) =>
                    /\ IsCorner(c, w, h) => Degree(i) = 2
                    /\ IsEdge(c, w, h) => Degree(i) = 3
                    /\ IsInterior(c, w, h) => Degree(i) = 4
              /\ (w = 1 /\ h = 1) => Degree(i) = 0
              /\ (w * h > 1 /\ (w = 1 \/ h = 1)) =>
                    Degree(i) = (IF IsCorner(c, w, h) THEN 1 ELSE 2)

(* C13 witness: the 3 by 3 grid, with its corner (0,0), its edge cell      *)
(* (1,0) and its interior cell (1,1)                                       *)
C13_Witness ==
    /\ size = <<3, 3>>
    /\ Len(nodes) = 9
    /\ Len(Lookup(nodes, Node(<<0, 0>>))) = 2
    /\ Len(Lookup(nodes, Node(<<1, 0>>))) = 3
    /\ Len(Lookup(nodes, Node(<<1, 1>>))) = 4

(* the position of key k in the order of the keys of nodes *)
KeyIndex(k) == CHOOSE i \in 1..Len(nodes) : nodes[i][1] = k

(* C18: every key of nodes is a position of the grid, every neighbor       *)
(* listed for a cell is itself a key, one step away from the cell, and v   *)
(* is listed for u exactly when u is listed for v.                         *)
C18_AdjacencyWellFormed ==
    /\ \A i \in 1..Len(nodes) :
          /\ nodes[i][1].pos[1] \in 0..(size[1] - 1)
          /\ nodes[i][1].pos[2] \in 0..(size[2] - 1)
          /\ \A j \in 1..Len(nodes[i][2]) :
                /\ HasKey(nodes, nodes[i][2][j])
                /\ Manhattan(nodes[i][1], nodes[i][2][j]) = 1
    /\ \A u \in Cells, v \in Cells :
          InList(v, Lookup(nodes, u)) <=> InList(u, Lookup(nodes, v))

(* C18 witness: the 3 by 3 grid, where (1,1) lists its four neighbors in   *)
(* the order left, right, up, down                                         *)
C18_Witness ==
    /\ size = <<3, 3>>
    /\ Lookup(nodes, Node(<<1, 1>>)) =
          <<Node(<<0, 1>>), Node(<<2, 1>>), Node(<<1, 0>>), Node(<<1, 2>>)>>
    /\ InList(Node(<<1, 1>>), Lookup(nodes, Node(<<2, 1>>)))

(***************************************************************************)
(* Single searches.                                                        *)
(***************************************************************************)

(* the search of the 3 by 3 grid with walls at (1,0) and (0,1) from (0,0)  *)
(* to (2,2)                                                                *)
Scenario14 ==
    /\ size = <<3, 3>>
    /\ WallSet = {Node(<<1, 0>>), Node(<<0, 1>>)}
    /\ source = Node(<<0, 0>>)
    /\ target = Node(<<2, 2>>)

C15_SourceIsTarget ==
    (source = target /\ source \in Cells)
    => /\ pc # "raised"
       /\ pc = "returned" => (path = <<source>> /\ visited = <<source>>)

(* C15 witness: a returned search with source = target, a wall that is not *)
(* the first key                                                           *)
C15_Witness ==
    /\ pc = "returned"
    /\ source = target
    /\ source \in Cells
    /\ source \in WallSet
    /\ source # Keys(nodes)[1]
    /\ visited = <<source>>

(* the search has set up dist and prev *)
Searching == pc \in {"loop"} \cup Terminal

(* C16: during a search no wall other than the source ever has a finite    *)
(* distance or a predecessor.                                              *)
C16_WallNeverEntered ==
    Searching =>
       \A k \in WallSet \cap Cells :
          k # source => (dist[k] = infinity /\ prev[k] = None)

(* C16 witness: a returned search that visited, at a finite distance, a    *)
(* cell next to a wall                                                     *)
C16_Witness ==
    /\ pc = "returned"
    /\ \E k \in WallSet \cap Cells, i \in 1..Len(visited) :
          /\ k # source
          /\ GridAdjacent(visited[i], k)
          /\ dist[visited[i]] # infinity
          /\ dist[k] = infinity

(* the unvisited cells whose distance no unvisited cell undercuts *)
MinCells == {k \in {unvisited[i] : i \in 1..Len(unvisited)} :
                \A j \in 1..Len(unvisited) : ~Lt(dist[unvisited[j]], dist[k])}

(* C17: every iteration moves one cell to visited, and it is the first     *)
(* one, in the order of the keys of nodes, of the unvisited cells of       *)
(* minimum distance.                                                       *)
C17_TieBreak ==
    [][iters' = iters + 1 =>
          /\ Len(visited') = Len(visited) + 1
          /\ LET c == visited'[Len(visited')]
             IN  /\ c \in MinCells
                 /\ \A k \in MinCells : KeyIndex(c) <= KeyIndex(k)
                 /\ curr' = c]_vars

(* C17 witness: the cell just selected had the same finite distance as a   *)
(* cell that is still unvisited and comes later in the order of the keys   *)
C17_Witness ==
    /\ pc = "loop"
    /\ Len(visited) >= 2
    /\ curr = visited[Len(visited)]
    /\ dist[curr] # infinity
    /\ \E i \in 1..Len(unvisited) :
          /\ dist[unvisited[i]] = dist[curr]
          /\ KeyIndex(unvisited[i]) > KeyIndex(curr)

(* C20: with source in the grid, the distance recorded for a visited cell, *)
(* when it is finite, is the length of the shortest route from source to   *)
(* the cell that enters no wall, from its visit on; and the distances of   *)
(* the visited cells never decrease along visited.                         *)
C20_DistancesFinal ==
    (Searching /\ source \in Cells)
    => /\ \A i \in 1..Len(visited) :
             dist[visited[i]] # infinity
             => dist[visited[i]] = BfsDist(source, visited[i])
       /\ \A i \in 1..Len(visited), j \in 1..Len(visited) :
             i < j => ~Lt(dist[visited[j]], dist[visited[i]])

(* C20 witness: a returned search around walls that visited cells at       *)
(* distances 0, 1, 2 and 3                                                 *)
C20_Witness ==
    /\ pc = "returned"
    /\ source \in Cells
    /\ walls # <<>>
    /\ \A n \in 0..3 : \E i \in 1..Len(visited) : dist[visited[i]] = n
    /\ dist[target] = BfsDist(source, target)

(***************************************************************************)
(* Graph.add_wall, and find_shortest_path as a function of the graph and   *)
(* its arguments.                                                          *)
(***************************************************************************)

(* add_wall that takes the wall away when it is already there *)
add_wallToggle(ws, c) ==
    IF InList(c, ws) THEN SelectSeq(ws, LAMBDA k : ~NodeEq(k, c))
    ELSE Append(ws, c)

(* Graph.add_wall: self.walls.append(wall_node) *)
add_wall(ws, c) == Append(ws, c)

(* lines 173-206: the main loop from the state (d, p, unv, vis, c) of      *)
(* dist, prev, unvisited, visited and curr, followed to the return or the  *)
(* KeyError; steps as Iterate and Return do                                *)
RECURSIVE SearchLoop(_, _, _, _, _, _, _, _)
SearchLoop(ns, ws, t, d, p, unv, vis, c) ==
    IF ~InList(t, unv)
    THEN IF t \in DOMAIN p
         THEN [outcome |-> "returned", path |-> trace_back(p, t),
               visited |-> vis]
         ELSE [outcome |-> "raised", path |-> <<>>, visited |-> <<>>]
    ELSE LET min == MinDist(unv, d)
             i == FirstWithMin(unv, d, min)
             c2 == IF i # 0 THEN unv[i] ELSE c
             r == Relax(ns, ws, d, p, c2)
         IN  IF i = 0
             THEN [outcome |-> "loops", path |-> <<>>, visited |-> <<>>]
             ELSE SearchLoop(ns, ws, t, r.dist, r.prev, RemoveAt(unv, i),
                             Append(vis, c2), c2)

(* Graph.find_shortest_path(source, target) on the graph (ns, ws): whether *)
(* it returns or raises, and the (path, visited) it returns                *)
find_shortest_path(ns, ws, s, t) ==
    SearchLoop(ns, ws, t, InitDist(ns, s), InitPrev(ns), InitUnvisited(ns),
               <<>>, None)

(* the cells add_wall is called with: the cells of the grid and a cell     *)
(* outside it (add_wall does not look at the grid)                         *)
AddCells == Cells \cup {Node(<<size[1], size[2]>>)}

(* Graph(generate_nodes(), []): a graph that has no walls yet *)
InitWalls ==
    /\ \E w \in 1..MaxW, h \in 1..MaxH :
          /\ w * h <= MaxCells
          /\ size = <<w, h>>
          /\ nodes = generate_nodes(w, h)
    /\ walls = <<>>
    /\ source = None
    /\ target = None
    /\ pc = "graph"
    /\ dist = <<>>
    /\ prev = <<>>
    /\ unvisited = <<>>
    /\ visited = <<>>
    /\ curr = None
    /\ path = <<>>
    /\ iters = 0
    /\ error = "none"
    /\ lists = <<>>
    /\ graphs = <<>>

(* graph.add_wall(c) *)
AddWall(c) ==
    /\ pc = "graph"
    /\ Len(walls) < MaxAdds
    /\ walls' = add_wall(walls, c)
    /\ UNCHANGED <<size, nodes, source, target, pc, dist, prev, unvisited,
                   visited, curr, path, iters, error, instVars>>

NextWalls == \E c \in AddCells : AddWall(c)

SpecWalls == InitWalls /\ [][NextWalls]_vars

(* the graph with walls ws answers every query as the graph with walls vs: *)
(* the same cells are walls, and every search returns the same             *)
SameObservations(ws, vs) ==
    /\ \A x \in AddCells : InList(x, ws) <=> InList(x, vs)
    /\ \A s \in Endpoints(nodes, size[1], size[2]),
          t \in Endpoints(nodes, size[1], size[2]) :
          find_shortest_path(nodes, ws, s, t)
             = find_shortest_path(nodes, vs, s, t)

(* C12 as claimed: add_wall(c) for a cell c that is already a wall (the    *)
(* second of two calls add_wall(c)) changes nothing that can be observed,  *)
(* and is a no-op on the walls collection.                                 *)
C12_AddWallNoOp ==
    [][\A c \in AddCells :
          (AddWall(c) /\ InList(c, walls))
          => (SameObservations(walls', walls) /\ walls' = walls)]_vars

(* C12 amended: add_wall(c) for a cell c that is already a wall changes no *)
(* membership in walls and no result of find_shortest_path, for any source *)
(* and target; but it is no no-op on the walls list, which gets a second   *)
(* entry for c and is one longer.                                          *)
C12_AddWallObservablyIdempotent ==
    [][\A c \in AddCells :
          (AddWall(c) /\ InList(c, walls))
          => /\ SameObservations(walls', walls)
             /\ Len(walls') = Len(walls) + 1
             /\ walls'[Len(walls')] = c]_vars

(* C12 witness: a cell of the grid has been added twice *)
C12_Witness ==
    /\ pc = "graph"
    /\ \E i \in 1..Len(walls), j \in 1..Len(walls) :
          i < j /\ walls[i] = walls[j] /\ walls[i] \in Cells

(***************************************************************************)
(* Several Graph instances. Graph.__init__(self, nodes={}, walls=[]):      *)
(* Python evaluates the default [] once, when the function is defined, so  *)
(* every call that passes no walls gets the same list object.              *)
(***************************************************************************)

(* the list object that is the default of the parameter walls, line 116 *)
DefaultWalls == 1

(* Graph.__init__, lines 118-119: the instance keeps the nodes and the     *)
(* list object it was given                                                *)
NewGraph(ns, a) == [nodes |-> ns, walls |-> a]

(* the content of g.walls for the g-th instance *)
WallsOf(ls, gs, g) == ls[gs[g].walls]

(* the program before it makes a Graph: the default list exists, empty *)
InitGraphs ==
    /\ \E w \in 1..MaxW, h \in 1..MaxH :
          /\ w * h <= MaxCells
          /\ size = <<w, h>>
          /\ nodes = generate_nodes(w, h)
    /\ lists = << <<>> >>
    /\ graphs = <<>>
    /\ walls = <<>>
    /\ source = None
    /\ target = None
    /\ pc = "graphs"
    /\ dist = <<>>
    /\ prev = <<>>
    /\ unvisited = <<>>
    /\ visited = <<>>
    /\ curr = None
    /\ path = <<>>
    /\ iters = 0
    /\ error = "none"

searchVars == <<size, nodes, walls, source, target, pc, dist, prev,
                unvisited, visited, curr, path, iters, error>>

(* Graph(self.generate_nodes()), as in Game.run line 246: no walls passed *)
ConstructDefault ==
    /\ pc = "graphs"
    /\ Len(graphs) < MaxGraphs
    /\ graphs' = Append(graphs, NewGraph(nodes, DefaultWalls))
    /\ UNCHANGED <<lists, searchVars>>

(* Graph(self.generate_nodes(), []): the caller passes a new empty list *)
ConstructWithList ==
    /\ pc = "graphs"
    /\ Len(graphs) < MaxGraphs
    /\ lists' = Append(lists, <<>>)
    /\ graphs' = Append(graphs, NewGraph(nodes, Len(lists) + 1))
    /\ UNCHANGED searchVars

(* g.add_wall(c) for the g-th instance: the append acts on the list object *)
GraphAddWall(g, c) ==
    /\ pc = "graphs"
    /\ g \in 1..Len(graphs)
    /\ Len(WallsOf(lists, graphs, g)) < MaxAdds
    /\ lists' = [lists EXCEPT ![graphs[g].walls] = add_wall(@, c)]
    /\ UNCHANGED <<graphs, searchVars>>

NextGraphs ==
    \/ ConstructDefault
    \/ ConstructWithList
    \/ \E g \in 1..MaxGraphs, c \in AddCells : GraphAddWall(g, c)

SpecGraphs == InitGraphs /\ [][NextGraphs]_vars

(* C11: every Graph instance owns its walls and its nodes: an add_wall on  *)
(* one instance leaves the walls and the nodes of every other instance     *)
(* unchanged, also between two instances made without a walls argument.    *)
C11_InstancesIndependent ==
    [][\A g \in 1..Len(graphs), c \in AddCells :
          GraphAddWall(g, c)
          => \A h \in 1..Len(graphs) :
                h # g => /\ WallsOf(lists', graphs', h)
                              = WallsOf(lists, graphs, h)
                         /\ graphs'[h].nodes = graphs[h].nodes]_vars

(***************************************************************************)
(* Game.run: the event loop. One graph is made (line 246); walls is the    *)
(* content of its list. Each event is handled by one pass of the body of   *)
(* the for loop, lines 254-276; the search that Enter starts is followed   *)
(* by Initialize, Iterate and Return and its result assigned by Resume.    *)
(* Between the call and its return nothing reads the path and visited of   *)
(* run, so the model keeps them in the variables of the search.            *)
(***************************************************************************)

(* the events told apart by the handler: QUIT, MOUSEBUTTONUP with button   *)
(* 1 or 3, KEYDOWN with K_RETURN, and any other event                      *)
EventKinds == {"QUIT", "LEFT_UP", "RIGHT_UP", "RETURN", "OTHER"}

(* lines 246-250 *)
InitGame ==
    /\ \E w \in 1..MaxW, h \in 1..MaxH :
          /\ w * h <= MaxGameCells
          /\ size = <<w, h>>
          /\ nodes = generate_nodes(w, h)
    /\ walls = <<>>
    /\ source = None
    /\ target = None
    /\ visited = <<>>
    /\ path = <<>>
    /\ pc = "events"
    /\ dist = <<>>
    /\ prev = <<>>
    /\ unvisited = <<>>
    /\ curr = None
    /\ iters = 0
    /\ error = "none"
    /\ lists = <<>>
    /\ graphs = <<>>

(* lines 254-276 for one event: kind is the event, node the cell under the *)
(* mouse (always a cell of the grid), w whether the w key is held down     *)
HandleEvent(kind, node, w) ==
    /\ pc = "events"
    /\ IF kind = "QUIT"
       THEN /\ pc' = "quit"
            /\ UNCHANGED <<source, target, walls>>
       ELSE /\ w => Len(walls) < MaxAdds
            /\ source' = IF kind = "LEFT_UP" THEN node ELSE source
            /\ target' = IF kind = "RIGHT_UP" THEN node ELSE target
            /\ walls' = IF w THEN add_wall(walls, node) ELSE walls
            /\ pc' = IF kind = "RETURN" THEN "call" ELSE "events"
    /\ UNCHANGED <<size, nodes, dist, prev, unvisited, visited, curr, path,
                   iters, error, instVars>>

(* line 276: path, visited = the result; the locals of the call are gone *)
Resume ==
    /\ pc = "returned"
    /\ pc' = "events"
    /\ dist' = <<>>
    /\ prev' = <<>>
    /\ unvisited' = <<>>
    /\ curr' = None
    /\ iters' = 0
    /\ UNCHANGED <<graphVars, source, target, visited, path, error, instVars>>

NextGame ==
    \/ \E kind \in EventKinds, node \in Cells, w \in BOOLEAN :
          HandleEvent(kind, node, w)
    \/ Initialize
    \/ Iterate
    \/ Return
    \/ Resume

SpecGame == InitGame /\ [][NextGame]_vars

(* C19: in the event loop find_shortest_path is only ever invoked with     *)
(* both source and target set; Enter before both are selected invokes      *)
(* nothing.                                                                *)
C19_FinderNeedsBothEndpoints ==
    pc = "call" => (source # None /\ target # None)

====
